---------------------------- MODULE Spec2Model ----------------------------
(***************************************************************************)
(* A model of src/app.py, the Flask back end of a YouTube downloader: the  *)
(* job registry active_downloads, the concurrency gate of start_download,  *)
(* the download worker download_video with its progress callback           *)
(* progress_hook, the two directories on disk, and the routes the          *)
(* application registers.                                                  *)
(*                                                                         *)
(* yt-dlp (YoutubeDL.download) and werkzeug (secure_filename) are not part *)
(* of the repository.  The library is modelled as the environment of the   *)
(* worker: while a download call is running it may invoke the progress     *)
(* hook with any dictionary of HookInputs, write a file into TEMP_DIR, and *)
(* finally return or raise.                                                *)
(*                                                                         *)
(* Optional values: Python's None is the empty tuple, a value v is <<v>>.  *)
(* Strings that the code takes apart (file names, error messages, percent  *)
(* strings) are sequences of tokens.                                       *)
(***************************************************************************)
EXTENDS Integers, Sequences, FiniteSets, TLC

\* ------------------------------------------------------------------ bounds

\* Jobs the fine-grained specification Spec creates.
MaxJobs == 1
\* Jobs the gate specifications SpecSeq and SpecRace create.
MaxGateJobs == 4
\* Facade threads handling requests at the same time.
MaxClients == 2
\* The clock stops advancing here (hours).
MaxClock == 25
\* Hours the clock advances in one step.
TickHours == 25
\* Jobs the specification SpecList creates.
MaxListJobs == 2
\* Jobs the specification SpecPair creates.
MaxPairJobs == 2

\* --------------------------------------------------------------- constants

MAX_FILE_AGE_HOURS == 24
MAX_CONCURRENT_DOWNLOADS == 3

None == << >>
Some(v) == << v >>
IsNone(x) == Len(x) = 0
IsSome(x) == Len(x) = 1
The(x) == x[1]

Clients == 1..MaxClients

\* ---------------------------------------------------------------- strings

\* str(counter) for the counters the collision loop reaches.
Str(n) == ToString(n)

\* x.lower() on the tokens of the messages of this model.
Lower(tok) ==
  CASE tok = "Private" -> "private"
    [] tok = "Video" -> "video"
    [] tok = "Not" -> "not"
    [] tok = "Found" -> "found"
    [] tok = "Unavailable" -> "unavailable"
    [] tok = "Copyright" -> "copyright"
    [] OTHER -> tok

LowerAll(msg) == [i \in 1..Len(msg) |-> Lower(msg[i])]

\* pat in msg, on token sequences.
Contains(msg, pat) ==
  \E i \in 1..(Len(msg) - Len(pat) + 1) :
     \A k \in 1..Len(pat) : msg[i + k - 1] = pat[k]

DigitValue(c) ==
  CASE c = "0" -> 0 [] c = "1" -> 1 [] c = "2" -> 2 [] c = "3" -> 3
    [] c = "4" -> 4 [] c = "5" -> 5 [] c = "6" -> 6 [] c = "7" -> 7
    [] c = "8" -> 8 [] c = "9" -> 9 [] OTHER -> -1

IsDigit(c) == DigitValue(c) >= 0

RECURSIVE StripLeft(_)
StripLeft(s) == IF Len(s) > 0 /\ Head(s) = " " THEN StripLeft(Tail(s)) ELSE s

RECURSIVE StripRight(_)
StripRight(s) ==
  IF Len(s) > 0 /\ s[Len(s)] = " " THEN StripRight(SubSeq(s, 1, Len(s) - 1)) ELSE s

\* s.strip()
Strip(s) == StripRight(StripLeft(s))

\* s.replace('%', '')
RemovePercent(s) == SelectSeq(s, LAMBDA c : c # "%")

RECURSIVE DigitsValue(_)
DigitsValue(s) ==
  IF Len(s) = 0 THEN 0
  ELSE 10 * DigitsValue(SubSeq(s, 1, Len(s) - 1)) + DigitValue(s[Len(s)])

\* float(s) for the strings of PercentStrs: an optionally signed run of
\* digits, surrounded by blanks, is its value; anything else is ValueError
\* (None here).
ParseFloat(s) ==
  LET t == Strip(s)
      neg == Len(t) > 0 /\ Head(t) = "-"
      digits == IF neg THEN Tail(t) ELSE t
  IN IF Len(digits) > 0 /\ \A i \in 1..Len(digits) : IsDigit(digits[i])
     THEN Some(IF neg THEN 0 - DigitsValue(digits) ELSE DigitsValue(digits))
     ELSE None

\* ------------------------------------------------------ the library's inputs

\* d['total_bytes'] and d['downloaded_bytes'] of a 'downloading' callback;
\* every quotient of these is a whole number of percent, so the float the
\* code computes is represented exactly.
TotalBytesValues == {0, 2}
DownloadedBytesValues == {3}

\* d['_percent_str'] of a 'downloading' callback.
PercentStrs == { <<" ", "4", "0", "%">>, <<"N", "/", "A">> }

\* %(title)s.%(ext)s of the file the library writes into TEMP_DIR.
Titles == { <<"video", ".", "mp4">>, <<"my", " ", "clip">> }

\* Files the durable directory may hold when the process starts.
OldFiles == { <<"video", ".", "mp4">>, <<"video", "_", "1", ".", "mp4">> }

MsgForbidden == <<"HTTP", "Error", "403", ":", "Forbidden">>
MsgReset == <<"Connection", "reset">>
MsgDenied == <<"Permission", "denied">>

\* What a download call may raise: yt_dlp.utils.DownloadError or another
\* exception, with its message.
GateExceptions ==
  { [type |-> "DownloadError", msg |-> MsgForbidden],
    [type |-> "Exception", msg |-> MsgReset] }

\* The same with the other pairings of type and message, and an exception
\* whose str() is empty (an AssertionError without arguments).
DownloadExceptions ==
  GateExceptions \cup
  { [type |-> "DownloadError", msg |-> MsgReset],
    [type |-> "Exception", msg |-> MsgForbidden],
    [type |-> "Exception", msg |-> << >>] }

\* data.get('quality', 'best') and data.get('custom_format') of a submission.
Qualities == {"best", "720p"}
CustomFormats == { None, Some("137+140") }

\* The dictionary a progress callback receives; an absent key is None.
HookDict(status, total, downloaded, percent, filename, error) ==
  [status |-> status, total_bytes |-> total, downloaded_bytes |-> downloaded,
   percent_str |-> percent, filename |-> filename, error |-> error]

DownloadingInputs ==
  { HookDict("downloading", Some(t), b, None, None, None) :
      t \in TotalBytesValues, b \in DownloadedBytesValues }
  \cup { HookDict("downloading", None, 0, Some(s), None, None) : s \in PercentStrs }
  \cup { HookDict("downloading", None, 0, None, None, None) }

\* str(TEMP_DIR / f"{download_id}_%(title)s.%(ext)s") for one title; the uuid
\* is one token.
TempName(download_id, title) == <<Str(download_id), "_">> \o title

TempPath(download_id, title) == [dir |-> "temp", name |-> TempName(download_id, title)]

FinishedInputs(download_id) ==
  { HookDict("finished", None, 0, None, Some(TempPath(download_id, t)), None) :
      t \in Titles }

ErrorInputs == { HookDict("error", None, 0, None, None, None) }

HookInputs(download_id) ==
  DownloadingInputs \cup FinishedInputs(download_id) \cup ErrorInputs

\* The callbacks of the gate specifications: one of each status.
GateHookInputs(download_id) ==
  { HookDict("downloading", None, 0, None, None, None),
    HookDict("error", None, 0, None, None, None) }

\* ---------------------------------------------------------- the job record

\* DownloadProgress.__init__
DownloadProgress(download_id) ==
  [download_id |-> download_id, status |-> "starting", progress |-> 0,
   filename |-> None, error |-> None, completed_at |-> None, file_path |-> None]

ActiveStatuses == {"starting", "downloading", "processing"}

\* One attribute assignment, progress_obj.<f> = v: the attribute, the value.
Assign(f, v) == << f, v >>

Apply(rec, u) ==
  CASE u[1] = "status" -> [rec EXCEPT !.status = u[2]]
    [] u[1] = "progress" -> [rec EXCEPT !.progress = u[2]]
    [] u[1] = "filename" -> [rec EXCEPT !.filename = u[2]]
    [] u[1] = "error" -> [rec EXCEPT !.error = u[2]]
    [] u[1] = "completed_at" -> [rec EXCEPT !.completed_at = u[2]]
    [] u[1] = "file_path" -> [rec EXCEPT !.file_path = u[2]]

RECURSIVE ApplyAll(_, _)
ApplyAll(rec, us) ==
  IF Len(us) = 0 THEN rec ELSE ApplyAll(Apply(rec, Head(us)), Tail(us))

\* (d['downloaded_bytes'] / d['total_bytes']) * 100
PercentOf(downloaded, total) == (downloaded * 100) \div total

\* The assignment to progress of the 'downloading' branch, if it makes one:
\* from the byte counts when total_bytes is present and truthy, else from
\* the percent string when that key is present and parses.
DownloadingProgress(d) ==
  IF IsSome(d.total_bytes) /\ The(d.total_bytes) # 0
  THEN << Assign("progress", PercentOf(d.downloaded_bytes, The(d.total_bytes))) >>
  ELSE IF IsSome(d.percent_str)
       THEN LET v == ParseFloat(RemovePercent(Strip(The(d.percent_str))))
            IN IF IsSome(v) THEN << Assign("progress", The(v)) >> ELSE << >>
       ELSE << >>

\* str(d.get('error', 'Unknown error'))
HookErrorText(d) == IF IsSome(d.error) THEN The(d.error) ELSE <<"Unknown error">>

\* The assignments progress_hook makes for d, in the order it makes them.
HookAssignments(d) ==
  CASE d.status = "downloading" ->
         DownloadingProgress(d) \o << Assign("status", "downloading") >>
    [] d.status = "finished" ->
         << Assign("status", "processing"), Assign("progress", 90),
            Assign("filename", Some(The(d.filename).name)) >>
    [] d.status = "error" ->
         << Assign("status", "error"), Assign("error", Some(HookErrorText(d))) >>
    [] OTHER -> << >>

\* ----------------------------------------------------------- download_video

\* ydl_opts['format'], lines 152-195: the custom format when one is given,
\* else the chain of the quality (each chain is named by its first selector).
FormatFor(quality, custom_format) ==
  IF IsSome(custom_format) THEN The(custom_format)
  ELSE CASE quality = "best" -> "bestvideo[height>=2160]+bestaudio[ext=m4a]/..."
         [] quality = "audio" -> "bestaudio[ext=m4a][abr>=192]/..."
         [] quality = "1080p" -> "bestvideo[height<=1080][height>=1080]+bestaudio[ext=m4a]/..."
         [] quality = "720p" -> "bestvideo[height<=720][height>=720]+bestaudio[ext=m4a]/..."
         [] OTHER -> "best"

\* ydl_opts as lines 126-199 build it: the keys the retry touches.
YdlOpts(quality, custom_format) ==
  [format |-> FormatFor(quality, custom_format),
   user_agent |-> "Chrome/91.0.4472.124 (Windows NT 10.0)",
   extractor_args |-> None]

\* Mutant: the retry falls back to the format 'best'.
RetryOpts_Best(ydl_opts) ==
  [ydl_opts EXCEPT !.user_agent = "Chrome/120.0.0.0 (X11; Linux x86_64)",
                   !.extractor_args = Some("youtube: skip dash, player_skip configs"),
                   !.format = "best"]

\* ydl_opts after the update of lines 216-221.
RetryOpts(ydl_opts) ==
  LET original_format == ydl_opts.format
  IN [ydl_opts EXCEPT !.user_agent = "Chrome/120.0.0.0 (X11; Linux x86_64)",
                      !.extractor_args = Some("youtube: skip dash, player_skip configs"),
                      !.format = original_format]

\* "403" in str(e) or "Forbidden" in str(e)
IsForbidden(msg) == Contains(msg, <<"403">>) \/ Contains(msg, <<"Forbidden">>)

MsgFileNotFound ==
  <<"Downloaded", "file", "not", "found", ".", "Check", "if", "the", "video",
    "is", "available", "and", "not", "private", "/", "restricted", ".">>

\* The message the except block records for the raw message of the exception.
HelpfulMessage(error_msg) ==
  IF IsForbidden(error_msg)
    THEN <<"YouTube blocked the download (403 Forbidden).">>
  ELSE IF Contains(error_msg, <<"404">>) \/ Contains(LowerAll(error_msg), <<"not", "found">>)
    THEN <<"Video not found (404).">>
  ELSE IF Contains(LowerAll(error_msg), <<"copyright">>)
    THEN <<"Video is protected by copyright and cannot be downloaded.">>
  ELSE IF Contains(LowerAll(error_msg), <<"private">>)
    THEN <<"This video is private and cannot be downloaded.">>
  ELSE IF Contains(LowerAll(error_msg), <<"unavailable">>)
    THEN <<"Video is unavailable in your region or has been removed.">>
  ELSE error_msg

\* Mutant: the except block records the message and leaves the status.
ErrorAssignments_NoStatus(error_msg) ==
  << Assign("error", Some(HelpfulMessage(error_msg))) >>

\* The assignments of the except block.
ErrorAssignments(error_msg) ==
  << Assign("status", "error"), Assign("error", Some(HelpfulMessage(error_msg))) >>

\* werkzeug's secure_filename on the removed-prefix name: blanks become
\* underscores, path separators are dropped.
secure_filename(name) ==
  LET kept == SelectSeq(name, LAMBDA c : c # "/")
  IN [i \in 1..Len(kept) |-> IF kept[i] = " " THEN "_" ELSE kept[i]]

\* The position of the last "." of name, 0 when it has none.
LastDot(name) ==
  LET dots == {i \in 1..Len(name) : name[i] = "."}
  IN IF dots = {} THEN 0 ELSE CHOOSE i \in dots : \A k \in dots : k <= i

\* One round of the collision loop's body: final_filename.rsplit('.', 1), then
\* name_counter.ext, or name_counter when there is no extension.
NextCandidate(final_filename, counter) ==
  LET dot == LastDot(final_filename)
  IN IF dot > 0
     THEN SubSeq(final_filename, 1, dot - 1) \o <<"_", Str(counter), ".">>
            \o SubSeq(final_filename, dot + 1, Len(final_filename))
     ELSE final_filename \o <<"_", Str(counter)>>

\* The whole collision loop against the names `existing`.
RECURSIVE UniqueFilename(_, _, _)
UniqueFilename(final_filename, counter, existing) ==
  IF final_filename \in existing
  THEN UniqueFilename(NextCandidate(final_filename, counter), counter + 1, existing)
  ELSE final_filename

\* DOWNLOAD_DIR / final_filename
FinalPath(final_filename) == [dir |-> "downloads", name |-> final_filename]

\* Mutant: file_path is assigned before status.
CompletionAssignments_PathFirst(final_filename, now) ==
  << Assign("file_path", Some(FinalPath(final_filename))), Assign("progress", 100),
     Assign("filename", Some(final_filename)),
     Assign("status", "completed"),
     Assign("completed_at", Some(now)) >>

\* Mutant: completed_at is assigned before status.
CompletionAssignments_StampFirst(final_filename, now) ==
  << Assign("completed_at", Some(now)), Assign("status", "completed"),
     Assign("progress", 100), Assign("filename", Some(final_filename)),
     Assign("file_path", Some(FinalPath(final_filename))) >>

\* The assignments after the move, lines 254-258.
CompletionAssignments(final_filename, now) ==
  << Assign("status", "completed"), Assign("progress", 100),
     Assign("filename", Some(final_filename)),
     Assign("file_path", Some(FinalPath(final_filename))),
     Assign("completed_at", Some(now)) >>

\* ------------------------------------------------------------------ routes

\* The rules the @app.route decorators register.  test_url (line 487) has no
\* decorator, and the clean-up code (lines 532-580) is the unreachable tail of
\* test_url, after the return of both of its branches: no rule names
\* /api/test-url or /api/cleanup.
Routes ==
  { <<"POST", "/api/info">>, <<"POST", "/api/download">>,
    <<"GET", "/api/progress/<download_id>">>,
    <<"GET", "/api/download/<download_id>/file">>,
    <<"GET", "/api/downloads">>, <<"POST", "/api/update-ytdlp">>,
    <<"POST", "/api/formats">>, <<"GET", "/health">> }

\* The endpoints the start-up banner announces.
AnnouncedEndpoints ==
  { <<"POST", "/api/info">>, <<"POST", "/api/download">>,
    <<"GET", "/api/progress/<download_id>">>,
    <<"GET", "/api/download/<download_id>/file">>,
    <<"GET", "/api/downloads">>, <<"POST", "/api/cleanup">>,
    <<"POST", "/api/update-ytdlp">>, <<"POST", "/api/test-url">>,
    <<"GET", "/health">> }

\* ------------------------------------------------------------------- state

VARIABLES
  active_downloads,  \* the registry: download_id -> DownloadProgress
  issued,            \* how many uuid4 identifiers have been generated
  worker,            \* download_id -> the download_video thread's position and locals
  request,           \* client -> the facade thread's position and locals
  last_response,     \* the response the facade sent last
  temp_dir,          \* the names of the files in TEMP_DIR
  download_dir,      \* DOWNLOAD_DIR: file name -> the job whose file it holds (0: an old file)
  clock              \* datetime.now(), in hours since the process started

vars ==
  << active_downloads, issued, worker, request, last_response, temp_dir,
     download_dir, clock >>

Jobs == DOMAIN active_downloads

\* A facade thread between requests.  Its locals while it handles one:
\* active_count (line 318), download_id (line 325, or the view's argument),
\* and the dictionary iterator of line 389 (the size of the registry when the
\* iteration began, the items yielded so far).
IdleRequest ==
  [pc |-> "idle", active_count |-> 0, download_id |-> 0, size |-> 0, seen |-> 0]

Response(client, method, route, code, body) ==
  [client |-> client, method |-> method, route |-> route, code |-> code, body |-> body]

\* The thread has returned from download_video: its locals are gone.
WorkerDone ==
  [pc |-> "done", pending |-> << >>, downloaded_file |-> None,
   final_filename |-> << >>, counter |-> 0, step |-> 0, calls |-> << >>, e |-> None]

\* The thread start_download starts: download_video before its first line.
\* calls lists the options of the YoutubeDL objects whose download has been
\* called; e is the exception caught last.
WorkerStart ==
  [pc |-> "l120", pending |-> << >>, downloaded_file |-> None,
   final_filename |-> << >>, counter |-> 0, step |-> 0, calls |-> << >>, e |-> None]

\* Process start: the __main__ block has emptied TEMP_DIR; DOWNLOAD_DIR holds
\* whatever earlier runs left.
Init ==
  /\ active_downloads = << >>
  /\ issued = 0
  /\ worker = << >>
  /\ request = [c \in Clients |-> IdleRequest]
  /\ last_response = Response(0, "", "", 0, "")
  /\ temp_dir = {}
  /\ \E old \in SUBSET OldFiles : download_dir = [n \in old |-> 0]
  /\ clock = 0

Put(f, k, v) == [x \in DOMAIN f \cup {k} |-> IF x = k THEN v ELSE f[x]]

\* ------------------------------------------------------------------ facade

\* Mutant: the request empties TEMP_DIR before it is answered.
dispatch_unrouted_EmptiesTemp(c, endpoint) ==
  /\ request[c].pc = "idle"
  /\ endpoint \notin Routes
  /\ last_response' = Response(c, endpoint[1], endpoint[2], 404, "Not Found")
  /\ temp_dir' = {}
  /\ UNCHANGED << active_downloads, issued, worker, request, download_dir, clock >>

\* Mutant: the request empties DOWNLOAD_DIR before it is answered.
dispatch_unrouted_EmptiesDownloads(c, endpoint) ==
  /\ request[c].pc = "idle"
  /\ endpoint \notin Routes
  /\ last_response' = Response(c, endpoint[1], endpoint[2], 404, "Not Found")
  /\ download_dir' = << >>
  /\ UNCHANGED << active_downloads, issued, worker, request, temp_dir, clock >>

\* Flask's dispatch of a request no rule matches: 404, no view function runs.
dispatch_unrouted(c, endpoint) ==
  /\ request[c].pc = "idle"
  /\ endpoint \notin Routes
  /\ last_response' = Response(c, endpoint[1], endpoint[2], 404, "Not Found")
  /\ UNCHANGED << active_downloads, issued, worker, request, temp_dir,
                  download_dir, clock >>

\* len([d for d in active_downloads.values() if d.status in [...]])
ActiveCount(registry) ==
  Cardinality({ j \in DOMAIN registry : registry[j].status \in ActiveStatuses })

\* Mutant: the comparison is off by one.
GateRejects_OffByOne(active_count) == active_count > MAX_CONCURRENT_DOWNLOADS

\* active_count >= MAX_CONCURRENT_DOWNLOADS
GateRejects(active_count) == active_count >= MAX_CONCURRENT_DOWNLOADS

\* Submissions past the gate that have not inserted their record yet.
InFlight == Cardinality({ c \in Clients : request[c].pc = "l325" })

\* start_download, lines 309-322: the url check and the gate check.  `limit`
\* bounds the identifiers the specification generates.
start_download_gate(c, url, limit) ==
  /\ request[c].pc = "idle"
  /\ UNCHANGED << active_downloads, issued, worker, temp_dir, download_dir, clock >>
  /\ IF url = ""
     THEN /\ last_response' = Response(c, "POST", "/api/download", 400, "URL is required")
          /\ UNCHANGED request
     ELSE IF GateRejects(ActiveCount(active_downloads))
     THEN /\ last_response' =
               Response(c, "POST", "/api/download", 429, "Too many concurrent downloads")
          /\ UNCHANGED request
     ELSE /\ issued + InFlight < limit
          /\ request' = [request EXCEPT ![c] =
               [IdleRequest EXCEPT !.pc = "l325",
                                   !.active_count = ActiveCount(active_downloads)]]
          /\ UNCHANGED last_response

\* Lines 325-329: the identifier, and the insert under download_lock.
start_download_insert(c) ==
  /\ request[c].pc = "l325"
  /\ issued' = issued + 1
  /\ active_downloads' = Put(active_downloads, issued + 1, DownloadProgress(issued + 1))
  /\ request' = [request EXCEPT ![c].pc = "l332", ![c].download_id = issued + 1]
  /\ UNCHANGED << worker, last_response, temp_dir, download_dir, clock >>

\* Lines 332-343: the thread is started and the identifier answered.
start_download_launch(c) ==
  /\ request[c].pc = "l332"
  /\ worker' = Put(worker, request[c].download_id, WorkerStart)
  /\ last_response' = Response(c, "POST", "/api/download", 200, "Download started")
  /\ request' = [request EXCEPT ![c] = IdleRequest]
  /\ UNCHANGED << active_downloads, issued, temp_dir, download_dir, clock >>

\* Flask matches the rule of a view function that takes a download_id and
\* calls it: get_progress (entry "l351") or download_file (entry "l368").
dispatch_view(c, entry, download_id) ==
  /\ request[c].pc = "idle"
  /\ request' = [request EXCEPT ![c] =
       [IdleRequest EXCEPT !.pc = entry, !.download_id = download_id]]
  /\ UNCHANGED << active_downloads, issued, worker, last_response, temp_dir,
                  download_dir, clock >>

\* The facade thread of c answers and goes back to waiting.
Answer(c, method, route, code, body) ==
  /\ last_response' = Response(c, method, route, code, body)
  /\ request' = [request EXCEPT ![c] = IdleRequest]

RouteProgress == "/api/progress/<download_id>"
RouteFile == "/api/download/<download_id>/file"
RouteList == "/api/downloads"

\* get_progress, lines 351-352: the membership test.
get_progress_check(c) ==
  /\ request[c].pc = "l351"
  /\ IF request[c].download_id \notin Jobs
     THEN Answer(c, "GET", RouteProgress, 404, "Download not found")
     ELSE /\ request' = [request EXCEPT ![c].pc = "l354"]
          /\ UNCHANGED last_response
  /\ UNCHANGED << active_downloads, issued, worker, temp_dir, download_dir, clock >>

\* Lines 354-363: the lookup (KeyError, answered 500 by Flask, when the key is
\* gone) and the answer; of the fields it reports the body keeps the status.
get_progress_answer(c) ==
  /\ request[c].pc = "l354"
  /\ IF request[c].download_id \notin Jobs
     THEN Answer(c, "GET", RouteProgress, 500, "KeyError")
     ELSE Answer(c, "GET", RouteProgress, 200,
                 active_downloads[request[c].download_id].status)
  /\ UNCHANGED << active_downloads, issued, worker, temp_dir, download_dir, clock >>

\* download_file, lines 368-369: the membership test.
download_file_check(c) ==
  /\ request[c].pc = "l368"
  /\ IF request[c].download_id \notin Jobs
     THEN Answer(c, "GET", RouteFile, 404, "Download not found")
     ELSE /\ request' = [request EXCEPT ![c].pc = "l371"]
          /\ UNCHANGED last_response
  /\ UNCHANGED << active_downloads, issued, worker, temp_dir, download_dir, clock >>

\* Lines 371-373: the lookup, and the first operand of the `or`, which reads
\* status.
download_file_status(c) ==
  /\ request[c].pc = "l371"
  /\ IF request[c].download_id \notin Jobs
     THEN Answer(c, "GET", RouteFile, 500, "KeyError")
     ELSE IF active_downloads[request[c].download_id].status # "completed"
     THEN Answer(c, "GET", RouteFile, 400, "File not ready for download")
     ELSE /\ request' = [request EXCEPT ![c].pc = "l373"]
          /\ UNCHANGED last_response
  /\ UNCHANGED << active_downloads, issued, worker, temp_dir, download_dir, clock >>

\* Line 373, the second operand of the `or`: file_path is read and tested.
download_file_path(c) ==
  /\ request[c].pc = "l373"
  /\ IF IsNone(active_downloads[request[c].download_id].file_path)
     THEN Answer(c, "GET", RouteFile, 400, "File not ready for download")
     ELSE /\ request' = [request EXCEPT ![c].pc = "l376"]
          /\ UNCHANGED last_response
  /\ UNCHANGED << active_downloads, issued, worker, temp_dir, download_dir, clock >>

\* Mutant: every path is taken to exist.
PathExists_Always(path, dir) == TRUE

\* path.exists() for a path of DOWNLOAD_DIR.
PathExists(path, dir) == path.name \in DOMAIN dir

\* Lines 376-377: file_path is read again and looked up on disk.
download_file_exists(c) ==
  /\ request[c].pc = "l376"
  /\ IF ~PathExists(The(active_downloads[request[c].download_id].file_path), download_dir)
     THEN Answer(c, "GET", RouteFile, 404, "File not found")
     ELSE /\ request' = [request EXCEPT ![c].pc = "l379"]
          /\ UNCHANGED last_response
  /\ UNCHANGED << active_downloads, issued, worker, temp_dir, download_dir, clock >>

\* Lines 379-383: send_file opens the file (FileNotFoundError, answered 500,
\* when it has gone since line 376) and sends it.
download_file_send(c) ==
  /\ request[c].pc = "l379"
  /\ IF ~PathExists(The(active_downloads[request[c].download_id].file_path), download_dir)
     THEN Answer(c, "GET", RouteFile, 500, "FileNotFoundError")
     ELSE Answer(c, "GET", RouteFile, 200, "attachment")
  /\ UNCHANGED << active_downloads, issued, worker, temp_dir, download_dir, clock >>

\* list_downloads, lines 388-389: the for statement creates the iterator of
\* active_downloads.items(), which remembers the size of the dictionary.
list_downloads_begin(c) ==
  /\ request[c].pc = "idle"
  /\ request' = [request EXCEPT ![c] =
       [IdleRequest EXCEPT !.pc = "l389", !.size = Cardinality(Jobs)]]
  /\ UNCHANGED << active_downloads, issued, worker, last_response, temp_dir,
                  download_dir, clock >>

\* Lines 389-399: the iterator is asked for its next item.  It raises
\* RuntimeError (dictionary changed size during iteration), which Flask
\* answers 500, when the size is no longer the one it remembers; it ends the
\* loop after the last item, and the list is answered.  download_lock is not
\* taken.
list_downloads_next(c) ==
  /\ request[c].pc = "l389"
  /\ IF Cardinality(Jobs) # request[c].size
     THEN Answer(c, "GET", RouteList, 500, "RuntimeError")
     ELSE IF request[c].seen = request[c].size
     THEN Answer(c, "GET", RouteList, 200, "downloads")
     ELSE /\ request' = [request EXCEPT ![c].seen = @ + 1]
          /\ UNCHANGED last_response
  /\ UNCHANGED << active_downloads, issued, worker, temp_dir, download_dir, clock >>

\* ------------------------------------------------------------------ worker

\* The thread of job j is at position pc.
At(j, pc) == j \in DOMAIN worker /\ worker[j].pc = pc

\* Job j's thread is inside a download call of the library, outside a callback.
InDownload(j) ==
  /\ j \in DOMAIN worker
  /\ worker[j].pc \in {"l209", "l222"}
  /\ Len(worker[j].pending) = 0

\* Lines 120-209: progress_obj = active_downloads[download_id], the options,
\* and the first download call.  quality and custom_format are the thread's
\* arguments, the submission's (lines 311-312, 334), read here first.
download_video_begin(j, quality, custom_format) ==
  /\ At(j, "l120")
  /\ j \in Jobs
  /\ worker' = [worker EXCEPT ![j].pc = "l209",
                               ![j].calls = << YdlOpts(quality, custom_format) >>]
  /\ UNCHANGED << active_downloads, issued, request, last_response, temp_dir,
                  download_dir, clock >>

\* The library calls progress_hook(d, download_id): lines 49-52, and the
\* assignments the branch for d will make.
progress_hook(j, d) ==
  /\ InDownload(j)
  /\ worker' = [worker EXCEPT ![j].pending =
                  IF j \in Jobs THEN HookAssignments(d) ELSE << >>]
  /\ UNCHANGED << active_downloads, issued, request, last_response, temp_dir,
                  download_dir, clock >>

\* The next assignment of the running callback or of the except block.
assign_pending(j) ==
  /\ j \in DOMAIN worker
  /\ Len(worker[j].pending) > 0
  /\ active_downloads' =
       [active_downloads EXCEPT ![j] = Apply(@, Head(worker[j].pending))]
  /\ worker' = [worker EXCEPT
       ![j].pending = Tail(@),
       ![j].pc = IF @ = "l278" /\ Len(worker[j].pending) = 1 THEN "l282" ELSE @]
  /\ UNCHANGED << issued, request, last_response, temp_dir, download_dir, clock >>

HasPrefix(name, j) == Len(name) >= 2 /\ name[1] = Str(j) /\ name[2] = "_"

\* Mutant: the pattern matches every file of the directory.
Glob_All(files, j) == files

\* TEMP_DIR.glob(f"{download_id}_*")
Glob(files, j) == { n \in files : HasPrefix(n, j) }

\* The library writes the job's file into TEMP_DIR (one file per job).
ydl_write_file(j, title) ==
  /\ InDownload(j)
  /\ Glob(temp_dir, j) = {}
  /\ temp_dir' = temp_dir \cup { TempName(j, title) }
  /\ UNCHANGED << active_downloads, issued, worker, request, last_response,
                  download_dir, clock >>

\* ydl.download([url]), or ydl_retry.download([url]), returns.
ydl_return(j) ==
  /\ InDownload(j)
  /\ worker' = [worker EXCEPT ![j].pc = "l228"]
  /\ UNCHANGED << active_downloads, issued, request, last_response, temp_dir,
                  download_dir, clock >>

\* Whether the except clause of line 210 retries: the first call raised a
\* DownloadError that names 403 or Forbidden.
Retries(pc, exc) == pc = "l209" /\ exc.type = "DownloadError" /\ IsForbidden(exc.msg)

\* Entering the except block of line 262 with the exception e.
CaughtException(w, e) ==
  [w EXCEPT !.pc = "l278", !.pending = ErrorAssignments(e.msg), !.step = 0,
            !.e = Some(e)]

\* The same for an Exception(msg) raised outside the library's download.
Caught(w, msg) == CaughtException(w, [type |-> "Exception", msg |-> msg])

\* Lines 212-223: the options are updated and the download is called again.
Retry(w, e) ==
  [w EXCEPT !.pc = "l222", !.e = Some(e), !.calls = Append(@, RetryOpts(@[Len(@)]))]

\* The download call raises: lines 210-225, and line 262 when not retried.
ydl_raise(j, exc) ==
  /\ InDownload(j)
  /\ worker' = [worker EXCEPT ![j] =
       IF Retries(@.pc, exc) THEN Retry(@, exc) ELSE CaughtException(@, exc)]
  /\ UNCHANGED << active_downloads, issued, request, last_response, temp_dir,
                  download_dir, clock >>

\* name.replace(f"{download_id}_", ""): every occurrence of the prefix goes.
RECURSIVE RemovePrefix(_, _)
RemovePrefix(name, j) ==
  IF Len(name) = 0 THEN << >>
  ELSE IF HasPrefix(name, j) THEN RemovePrefix(SubSeq(name, 3, Len(name)), j)
  ELSE << Head(name) >> \o RemovePrefix(Tail(name), j)

\* Lines 228-240: the glob, the first match, the clean name.  The order of a
\* glob is the directory's: any match may come first.
find_downloaded_file(j) ==
  /\ At(j, "l228")
  /\ IF Glob(temp_dir, j) = {}
     THEN worker' = [worker EXCEPT ![j] = Caught(@, MsgFileNotFound)]
     ELSE \E downloaded_file \in Glob(temp_dir, j) :
            worker' = [worker EXCEPT
              ![j].pc = "l241",
              ![j].downloaded_file = Some(downloaded_file),
              ![j].final_filename = secure_filename(RemovePrefix(downloaded_file, j)),
              ![j].counter = 1]
  /\ UNCHANGED << active_downloads, issued, request, last_response, temp_dir,
                  download_dir, clock >>

\* final_path.exists()
Exists(final_filename) == final_filename \in DOMAIN download_dir

\* Lines 241-248: one test of the while condition, and one round of the body
\* when it holds.
collision_step(j) ==
  /\ At(j, "l241")
  /\ worker' = [worker EXCEPT ![j] =
       IF Exists(@.final_filename)
       THEN [@ EXCEPT !.final_filename = NextCandidate(@, worker[j].counter),
                      !.counter = @ + 1]
       ELSE [@ EXCEPT !.pc = "l250"]]
  /\ UNCHANGED << active_downloads, issued, request, last_response, temp_dir,
                  download_dir, clock >>

\* Mutant: the move is a rename-if-absent, refused when the destination exists.
move_file_IfAbsent(j, refused) ==
  /\ At(j, "l250")
  /\ IF \/ refused \/ The(worker[j].downloaded_file) \notin temp_dir
        \/ Exists(worker[j].final_filename)
     THEN /\ worker' = [worker EXCEPT ![j] = Caught(@, MsgDenied)]
          /\ UNCHANGED << temp_dir, download_dir >>
     ELSE /\ temp_dir' = temp_dir \ { The(worker[j].downloaded_file) }
          /\ download_dir' = Put(download_dir, worker[j].final_filename, j)
          /\ worker' = [worker EXCEPT ![j].pc = "l254", ![j].step = 1]
  /\ UNCHANGED << active_downloads, issued, request, last_response, clock >>

\* Line 250: shutil.move, which replaces a file already at the destination,
\* and raises when the source is gone or the file system refuses.
move_file(j, refused) ==
  /\ At(j, "l250")
  /\ IF refused \/ The(worker[j].downloaded_file) \notin temp_dir
     THEN /\ worker' = [worker EXCEPT ![j] = Caught(@, MsgDenied)]
          /\ UNCHANGED << temp_dir, download_dir >>
     ELSE /\ temp_dir' = temp_dir \ { The(worker[j].downloaded_file) }
          /\ download_dir' = Put(download_dir, worker[j].final_filename, j)
          /\ worker' = [worker EXCEPT ![j].pc = "l254", ![j].step = 1]
  /\ UNCHANGED << active_downloads, issued, request, last_response, clock >>

\* Lines 254-258, one assignment at a time; datetime.now() is read by the last.
completion_assign(j) ==
  /\ At(j, "l254")
  /\ active_downloads' = [active_downloads EXCEPT ![j] =
       Apply(@, CompletionAssignments(worker[j].final_filename, clock)[worker[j].step])]
  /\ worker' = [worker EXCEPT ![j] =
       IF @.step = 5 THEN WorkerDone ELSE [@ EXCEPT !.step = @ + 1]]
  /\ UNCHANGED << issued, request, last_response, temp_dir, download_dir, clock >>

\* Mutant: the except block also drops the job's record from the registry.
cleanup_partial_DropsRecord(j, failing) ==
  /\ At(j, "l282")
  /\ failing \subseteq Glob(temp_dir, j)
  /\ temp_dir' = temp_dir \ (Glob(temp_dir, j) \ failing)
  /\ worker' = [worker EXCEPT ![j] = WorkerDone]
  /\ active_downloads' = [k \in Jobs \ {j} |-> active_downloads[k]]
  /\ UNCHANGED << issued, request, last_response, download_dir, clock >>

\* Lines 282-287: the job's temp files are unlinked; a failing unlink is
\* swallowed and leaves its file.
cleanup_partial(j, failing) ==
  /\ At(j, "l282")
  /\ failing \subseteq Glob(temp_dir, j)
  /\ temp_dir' = temp_dir \ (Glob(temp_dir, j) \ failing)
  /\ worker' = [worker EXCEPT ![j] = WorkerDone]
  /\ UNCHANGED << active_downloads, issued, request, last_response, download_dir,
                  clock >>

\* Time passes.
Tick ==
  /\ clock + TickHours <= MaxClock
  /\ clock' = clock + TickHours
  /\ UNCHANGED << active_downloads, issued, worker, request, last_response,
                  temp_dir, download_dir >>

\* ---------------------------------------------------------- specifications

\* url of a request body: missing, or present.
Urls == {"", "https://youtu.be/x"}

\* The requests a client sends to endpoints that have no rule.
UnroutedEndpoints == AnnouncedEndpoints \ Routes

\* Every thread at the granularity of one access to shared state: one client
\* request step, one worker step of one job, or time passing.
Next ==
  \/ \E c \in Clients :
       \/ \E endpoint \in UnroutedEndpoints : dispatch_unrouted(c, endpoint)
       \/ \E url \in Urls : start_download_gate(c, url, MaxJobs)
       \/ start_download_insert(c)
       \/ start_download_launch(c)
  \/ \E j \in 1..MaxJobs :
       \/ \E quality \in Qualities : \E custom_format \in CustomFormats :
            download_video_begin(j, quality, custom_format)
       \/ \E d \in HookInputs(j) : progress_hook(j, d)
       \/ assign_pending(j)
       \/ \E title \in Titles : ydl_write_file(j, title)
       \/ ydl_return(j)
       \/ \E exc \in DownloadExceptions : ydl_raise(j, exc)
       \/ find_downloaded_file(j)
       \/ collision_step(j)
       \/ \E refused \in BOOLEAN : move_file(j, refused)
       \/ completion_assign(j)
       \/ \E failing \in SUBSET temp_dir : cleanup_partial(j, failing)
  \/ Tick

Spec == Init /\ [][Next]_vars

\* ------------------------------------------------- the gate specifications
\* The same code with each handler, each callback and each tail of the worker
\* taken as one step, for the claims about the count of active jobs, which
\* need more jobs than MAX_CONCURRENT_DOWNLOADS.

\* start_download, lines 306-346, handled without another submission between
\* its gate check and its insert.
start_download(c, url, limit) ==
  /\ request[c].pc = "idle"
  /\ UNCHANGED << request, temp_dir, download_dir, clock >>
  /\ IF url = ""
     THEN /\ last_response' = Response(c, "POST", "/api/download", 400, "URL is required")
          /\ UNCHANGED << active_downloads, issued, worker >>
     ELSE IF GateRejects(ActiveCount(active_downloads))
     THEN /\ last_response' =
               Response(c, "POST", "/api/download", 429, "Too many concurrent downloads")
          /\ UNCHANGED << active_downloads, issued, worker >>
     ELSE /\ issued < limit
          /\ issued' = issued + 1
          /\ active_downloads' =
               Put(active_downloads, issued + 1, DownloadProgress(issued + 1))
          /\ worker' = Put(worker, issued + 1, WorkerStart)
          /\ last_response' = Response(c, "POST", "/api/download", 200, "Download started")

\* progress_hook(d, download_id), the whole callback.
progress_hook_call(j, d) ==
  /\ InDownload(j)
  /\ active_downloads' =
       IF j \in Jobs
       THEN [active_downloads EXCEPT ![j] = ApplyAll(@, HookAssignments(d))]
       ELSE active_downloads
  /\ UNCHANGED << issued, worker, request, last_response, temp_dir, download_dir, clock >>

\* The except block, lines 262-287, entered with str(e) = msg: the record's
\* assignments and the removal of the job's temp files.
download_video_fails(j, msg) ==
  /\ active_downloads' = [active_downloads EXCEPT ![j] = ApplyAll(@, ErrorAssignments(msg))]
  /\ temp_dir' = temp_dir \ Glob(temp_dir, j)
  /\ worker' = [worker EXCEPT ![j] = WorkerDone]

\* The download call raises: the retry of lines 210-223, or the except block.
download_raises(j, exc) ==
  /\ InDownload(j)
  /\ IF Retries(worker[j].pc, exc)
     THEN /\ worker' = [worker EXCEPT ![j] = Retry(@, exc)]
          /\ UNCHANGED << active_downloads, temp_dir >>
     ELSE download_video_fails(j, exc.msg)
  /\ UNCHANGED << issued, request, last_response, download_dir, clock >>

\* The download call returns having written `written` (at most one file) into
\* TEMP_DIR: lines 227-260, or the except block when the glob finds nothing.
download_returns(j, written) ==
  /\ InDownload(j)
  /\ IF written = {}
     THEN /\ download_video_fails(j, MsgFileNotFound)
          /\ UNCHANGED download_dir
     ELSE \E title \in written :
            LET final_filename ==
                  UniqueFilename(secure_filename(RemovePrefix(TempName(j, title), j)),
                                 1, DOMAIN download_dir)
            IN /\ download_dir' = Put(download_dir, final_filename, j)
               /\ active_downloads' = [active_downloads EXCEPT ![j] =
                    ApplyAll(@, CompletionAssignments(final_filename, clock))]
               /\ worker' = [worker EXCEPT ![j] = WorkerDone]
               /\ UNCHANGED temp_dir
  /\ UNCHANGED << issued, request, last_response, clock >>

\* A fresh installation: both directories empty.
InitGate ==
  /\ active_downloads = << >>
  /\ issued = 0
  /\ worker = << >>
  /\ request = [c \in Clients |-> IdleRequest]
  /\ last_response = Response(0, "", "", 0, "")
  /\ temp_dir = {}
  /\ download_dir = << >>
  /\ clock = 0

GateTitles == { <<"video", ".", "mp4">> }

WorkerGate(j) ==
  \/ download_video_begin(j, "best", None)
  \/ \E d \in GateHookInputs(j) : progress_hook_call(j, d)
  \/ \E exc \in GateExceptions : download_raises(j, exc)
  \/ \E written \in {{}} \cup {{t} : t \in GateTitles} : download_returns(j, written)

\* Submissions handled one at a time.
NextSeq ==
  \/ \E c \in Clients : \E url \in Urls : start_download(c, url, MaxGateJobs)
  \/ \E j \in 1..MaxGateJobs : WorkerGate(j)

SpecSeq == InitGate /\ [][NextSeq]_vars

\* Submissions handled by concurrent facade threads.
NextRace ==
  \/ \E c \in Clients :
       \/ \E url \in Urls : start_download_gate(c, url, MaxGateJobs)
       \/ start_download_insert(c)
       \/ start_download_launch(c)
  \/ \E j \in 1..MaxGateJobs : WorkerGate(j)

SpecRace == InitGate /\ [][NextRace]_vars

\* ------------------------------------------------ the facade specification
\* The worker as in Spec (without the callbacks' and the clock's variety),
\* and the facade's read handlers running beside it.

\* The identifiers a client asks about: one no job has, and the jobs'.
PollIds == 0..MaxJobs

\* A file of DOWNLOAD_DIR is removed from outside the process.
file_removed(name) ==
  /\ name \in DOMAIN download_dir
  /\ download_dir' = [n \in DOMAIN download_dir \ {name} |-> download_dir[n]]
  /\ UNCHANGED << active_downloads, issued, worker, request, last_response,
                  temp_dir, clock >>

NextFacade ==
  \/ \E c \in Clients :
       \/ \E endpoint \in UnroutedEndpoints : dispatch_unrouted(c, endpoint)
       \/ \E url \in Urls : start_download_gate(c, url, MaxJobs)
       \/ start_download_insert(c)
       \/ start_download_launch(c)
       \/ \E id \in PollIds : dispatch_view(c, "l351", id)
       \/ get_progress_check(c)
       \/ get_progress_answer(c)
       \/ \E id \in PollIds : dispatch_view(c, "l368", id)
       \/ download_file_check(c)
       \/ download_file_status(c)
       \/ download_file_path(c)
       \/ download_file_exists(c)
       \/ download_file_send(c)
       \/ list_downloads_begin(c)
       \/ list_downloads_next(c)
  \/ \E j \in 1..MaxJobs :
       \/ download_video_begin(j, "best", None)
       \/ \E d \in ErrorInputs : progress_hook(j, d)
       \/ assign_pending(j)
       \/ \E title \in GateTitles : ydl_write_file(j, title)
       \/ ydl_return(j)
       \/ \E exc \in GateExceptions : ydl_raise(j, exc)
       \/ find_downloaded_file(j)
       \/ collision_step(j)
       \/ \E refused \in BOOLEAN : move_file(j, refused)
       \/ completion_assign(j)
       \/ \E failing \in SUBSET temp_dir : cleanup_partial(j, failing)
  \/ \E name \in GateTitles : file_removed(name)
  \/ Tick

SpecFacade == InitGate /\ [][NextFacade]_vars

\* The list endpoint beside submissions and the workers of several jobs, the
\* workers taken as in the gate specifications.
NextList ==
  \/ \E c \in Clients :
       \/ \E url \in Urls : start_download_gate(c, url, MaxListJobs)
       \/ start_download_insert(c)
       \/ start_download_launch(c)
       \/ list_downloads_begin(c)
       \/ list_downloads_next(c)
  \/ \E j \in 1..MaxListJobs : WorkerGate(j)

SpecList == InitGate /\ [][NextList]_vars

\* Two workers at the granularity of Spec, for what one job's worker does to
\* the files of another: submissions in one step, no callbacks.

\* The files the library writes for a job: the video, and a fragment of it.
PairTitles == { <<"video", ".", "mp4">>, <<"video", ".", "mp4", ".", "part">> }

\* The library writes one more file of the job into TEMP_DIR.
ydl_write_part(j, title) ==
  /\ InDownload(j)
  /\ TempName(j, title) \notin temp_dir
  /\ temp_dir' = temp_dir \cup { TempName(j, title) }
  /\ UNCHANGED << active_downloads, issued, worker, request, last_response,
                  download_dir, clock >>

NextPair ==
  \/ \E c \in Clients : \E url \in Urls : start_download(c, url, MaxPairJobs)
  \/ \E j \in 1..MaxPairJobs :
       \/ download_video_begin(j, "best", None)
       \/ \E title \in PairTitles : ydl_write_part(j, title)
       \/ ydl_return(j)
       \/ \E exc \in GateExceptions : ydl_raise(j, exc)
       \/ assign_pending(j)
       \/ find_downloaded_file(j)
       \/ collision_step(j)
       \/ \E refused \in BOOLEAN : move_file(j, refused)
       \/ completion_assign(j)
       \/ \E failing \in SUBSET temp_dir : cleanup_partial(j, failing)

SpecPair == InitGate /\ [][NextPair]_vars

\* ------------------------------------------------- the fair specifications
\* The scheduling the threads get: a facade thread past the gate goes on to its
\* insert and to thread.start(), a started worker thread goes on running, and
\* a download call of the library comes to its end.

\* A step of job j's thread outside the library's download call.
worker_step(j) ==
  \/ download_video_begin(j, "best", None)
  \/ assign_pending(j)
  \/ find_downloaded_file(j)
  \/ collision_step(j)
  \/ \E refused \in BOOLEAN : move_file(j, refused)
  \/ completion_assign(j)
  \/ \E failing \in SUBSET temp_dir : cleanup_partial(j, failing)

\* The download call job j's thread is in returns or raises.  Between two
\* callbacks the call can end; while a callback runs it cannot.
ydl_ends(j) == ydl_return(j) \/ \E exc \in DownloadExceptions : ydl_raise(j, exc)

\* One job at the granularity of Spec, with every callback, title and
\* exception of Spec.
NextLive ==
  \/ \E c \in Clients :
       \/ \E url \in Urls : start_download_gate(c, url, MaxJobs)
       \/ start_download_insert(c)
       \/ start_download_launch(c)
  \/ \E j \in 1..MaxJobs :
       \/ worker_step(j)
       \/ \E d \in HookInputs(j) : progress_hook(j, d)
       \/ \E title \in Titles : ydl_write_file(j, title)
       \/ ydl_ends(j)

FairThreads ==
  /\ \A c \in Clients : WF_vars(start_download_insert(c) \/ start_download_launch(c))
  /\ \A j \in 1..MaxJobs :
       /\ WF_vars(worker_step(j))
       /\ SF_vars(ydl_ends(j))

SpecLive == Init /\ [][NextLive]_vars /\ FairThreads

\* Several jobs, each handler and each tail of the worker in one step as in
\* the gate specifications, without callbacks.
download_ends(j) ==
  \/ \E exc \in GateExceptions : download_raises(j, exc)
  \/ \E written \in {{}} \cup {{t} : t \in GateTitles} : download_returns(j, written)

thread_step(j) == download_video_begin(j, "best", None) \/ download_ends(j)

NextLiveGate ==
  \/ \E c \in Clients : \E url \in Urls : start_download(c, url, MaxGateJobs)
  \/ \E j \in 1..MaxGateJobs : thread_step(j)

SpecLiveGate ==
  InitGate /\ [][NextLiveGate]_vars /\ \A j \in 1..MaxGateJobs : WF_vars(thread_step(j))

\* ------------------------------------------------------------------ claims

Record(j) == active_downloads[j]

\* The worker of job j has returned from download_video.
Finished(j) == At(j, "done")

\* C1 as stated: in every state, for every job of the registry, file_path is
\* non-null if and only if status is completed.
C1_FilePathIffCompleted ==
  \A j \in Jobs : IsSome(Record(j).file_path) <=> Record(j).status = "completed"

\* C1 as amended: a non-null file_path implies status completed in every
\* state; a completed job has a file_path except while its worker is between
\* the assignment of status (line 254) and that of file_path (line 257).
C1_FilePathOnlyWhenCompleted ==
  \A j \in Jobs :
    /\ IsSome(Record(j).file_path) => Record(j).status = "completed"
    /\ Record(j).status = "completed" =>
         \/ IsSome(Record(j).file_path)
         \/ At(j, "l254") /\ worker[j].step \in 2..4

\* A job whose worker has returned, completed and with its file_path set.
C1_Witness ==
  \E j \in Jobs :
    Finished(j) /\ Record(j).status = "completed" /\ IsSome(Record(j).file_path)

\* No writer of job j's record is between two of its assignments: no callback
\* or except block is under way, nor the assignments of lines 254-258.
Settled(j) ==
  j \in DOMAIN worker => Len(worker[j].pending) = 0 /\ worker[j].pc # "l254"

\* C2: for every job, error is non-null if and only if status is error, and
\* no job has both an error and a file_path.  The claim is of every state; it
\* is stated here of the states in which the job's record is settled, so that
\* what refutes it is a record the writers leave behind, not one they are in
\* the middle of updating.
C2_ErrorIffStatusError ==
  \A j \in Jobs :
    Settled(j) =>
      /\ IsSome(Record(j).error) <=> Record(j).status = "error"
      /\ ~(IsSome(Record(j).error) /\ IsSome(Record(j).file_path))

\* C3 as stated: after every step, for every job, completed_at is non-null if
\* and only if status is completed, and a completed_at once set keeps its value.
C3_CompletedAtIffCompleted ==
  [][\A j \in DOMAIN active_downloads' :
       /\ IsSome(active_downloads'[j].completed_at)
            <=> active_downloads'[j].status = "completed"
       /\ (j \in Jobs /\ IsSome(Record(j).completed_at))
            => active_downloads'[j].completed_at = Record(j).completed_at]_vars

\* C3 as amended: after every step, a non-null completed_at implies status
\* completed; a completed job whose worker has returned has a completed_at;
\* completed_at is assigned only by the worker's last assignment (line 258),
\* and once set keeps its value.
C3_CompletedAtOnlyWhenCompleted ==
  [][\A j \in DOMAIN active_downloads' :
       /\ IsSome(active_downloads'[j].completed_at)
            => active_downloads'[j].status = "completed"
       /\ (active_downloads'[j].status = "completed" /\ worker'[j].pc = "done")
            => IsSome(active_downloads'[j].completed_at)
       /\ (j \in Jobs /\ IsSome(Record(j).completed_at))
            => active_downloads'[j].completed_at = Record(j).completed_at
       /\ (j \in Jobs /\ IsNone(Record(j).completed_at)
             /\ IsSome(active_downloads'[j].completed_at))
            => At(j, "l254") /\ worker[j].step = 5
                 /\ active_downloads'[j].completed_at = Some(clock)]_vars

\* A job completed at an earlier hour than the present one, its completed_at
\* still the hour of its completion.
C3_Witness ==
  \E j \in Jobs :
    /\ Finished(j) /\ Record(j).status = "completed"
    /\ IsSome(Record(j).completed_at) /\ The(Record(j).completed_at) < clock

\* C6: in every state, for every job, progress is within [0, 100].
C6_ProgressInRange ==
  \A j \in Jobs : Record(j).progress >= 0 /\ Record(j).progress <= 100

Rank(status) ==
  CASE status = "starting" -> 1 [] status = "downloading" -> 2
    [] status = "processing" -> 3 [] status = "completed" -> 4 [] OTHER -> 0

\* C7: every change of a job's status moves it forward along starting,
\* downloading, processing, completed, or into error from one of the first
\* three.
C7_StatusMonotonic ==
  [][\A j \in Jobs :
       \/ active_downloads'[j].status = Record(j).status
       \/ /\ Rank(Record(j).status) > 0
          /\ Rank(active_downloads'[j].status) > Rank(Record(j).status)
       \/ /\ active_downloads'[j].status = "error"
          /\ Record(j).status \in ActiveStatuses]_vars

\* The name C8 gives a job whose clean name is `name`: the name itself when it
\* is free, else the first free one of name_1, name_2, ..., the suffix put on
\* the original base name.
SuffixedName(name, existing) ==
  IF name \notin existing THEN name
  ELSE LET free == { k \in 1..(Cardinality(existing) + 1) :
                       NextCandidate(name, k) \notin existing }
       IN NextCandidate(name, CHOOSE k \in free : \A m \in free : k <= m)

\* C8: when the collision loop has ended, the name it chose is the clean name
\* with the suffix _k on its original base name, k counting the collisions.
C8_CollisionSuffix ==
  \A j \in Jobs :
    At(j, "l250") =>
      worker[j].final_filename =
        SuffixedName(secure_filename(RemovePrefix(The(worker[j].downloaded_file), j)),
                     DOMAIN download_dir)

\* completed_at is more than MAX_FILE_AGE_HOURS before `now`.
Expired(rec, now) ==
  IsSome(rec.completed_at) /\ The(rec.completed_at) < now - MAX_FILE_AGE_HOURS

\* A step in which the facade answers a POST /api/cleanup request.
CleanupAnswered ==
  /\ last_response' # last_response
  /\ last_response'.method = "POST" /\ last_response'.route = "/api/cleanup"

\* C9: a sweep (the handling of a POST /api/cleanup request) removes every job
\* whose completed_at is more than 24 hours old and its backing file, and
\* leaves every younger job in the registry.
C9_SweepRemovesExpired ==
  [][CleanupAnswered =>
       \A j \in Jobs :
         IF Expired(Record(j), clock)
         THEN /\ j \notin DOMAIN active_downloads'
              /\ The(Record(j).file_path).name \notin DOMAIN download_dir'
         ELSE j \in DOMAIN active_downloads']_vars

\* C10: a POST /api/cleanup request is answered 200 with success,
\* cleaned_files and message.
C10_CleanupIsRouted ==
  (last_response.method = "POST" /\ last_response.route = "/api/cleanup")
    => (last_response.code = 200 /\ last_response.body = "success, cleaned_files, message")

\* C4: with submissions handled one at a time, a submission is admitted only
\* while fewer than MAX_CONCURRENT_DOWNLOADS jobs are active and is answered
\* 429, inserting and launching nothing, otherwise; and no step leaves more
\* than MAX_CONCURRENT_DOWNLOADS jobs active.
C4_SequentialGate ==
  [][LET active_count == ActiveCount(active_downloads)
         answered == last_response' # last_response
                       /\ last_response'.route = "/api/download"
     IN /\ issued' # issued => active_count < MAX_CONCURRENT_DOWNLOADS
        /\ (answered /\ last_response'.code = 429) =>
             /\ active_count >= MAX_CONCURRENT_DOWNLOADS
             /\ UNCHANGED << active_downloads, worker, issued >>
        /\ (answered /\ active_count >= MAX_CONCURRENT_DOWNLOADS) =>
             last_response'.code \in {400, 429}
        /\ ActiveCount(active_downloads') <= MAX_CONCURRENT_DOWNLOADS]_vars

\* C5: the gate check is not atomic with the insert.  A submission that has
\* passed the gate holds the count it read then, below the limit, and its
\* insert is enabled whatever the count has become since.
C5_GateNotAtomic ==
  \A c \in Clients :
    request[c].pc = "l325" =>
      /\ request[c].active_count < MAX_CONCURRENT_DOWNLOADS
      /\ ENABLED start_download_insert(c)

\* More than MAX_CONCURRENT_DOWNLOADS jobs are in status starting, none of
\* them yet touched by its worker: two submissions read the same count.
C5_Witness ==
  Cardinality({ j \in Jobs : Record(j).status = "starting" }) > MAX_CONCURRENT_DOWNLOADS

\* A step in which the facade thread of c, inside one of the handlers whose
\* positions are pcs, answers its request.
Answers(c, pcs) == request[c].pc \in pcs /\ request'[c].pc = "idle"

\* C11: a record leaves the registry only in a step that answers a sweep
\* (POST /api/cleanup, 200) and only if its completed_at is more than 24 hours
\* old; a job in error, starting, downloading or processing is removed by no
\* step; and a progress poll for a job of the registry is answered 200 with
\* the job's status, so a failed job stays visible.
C11_RecordsLeaveOnlyBySweep ==
  [][/\ \A j \in Jobs :
          /\ j \notin DOMAIN active_downloads' =>
                /\ CleanupAnswered /\ last_response'.code = 200
                /\ Expired(Record(j), clock)
          /\ Record(j).status \in ActiveStatuses \cup {"error"} =>
                j \in DOMAIN active_downloads'
     /\ \A c \in Clients :
          (Answers(c, {"l351", "l354"}) /\ request[c].download_id \in Jobs) =>
             /\ last_response'.client = c /\ last_response'.route = RouteProgress
             /\ last_response'.code = 200
             /\ last_response'.body = Record(request[c].download_id).status]_vars

\* A job that failed is in the registry more than 24 hours later, after a
\* POST /api/cleanup request has been answered, and a poll for it has passed
\* its membership test.
C11_Witness ==
  \E j \in Jobs : \E c \in Clients :
    /\ Finished(j) /\ Record(j).status = "error"
    /\ clock > MAX_FILE_AGE_HOURS
    /\ last_response.method = "POST" /\ last_response.route = "/api/cleanup"
    /\ request[c].pc = "l354" /\ request[c].download_id = j

\* The step ends a download call of job j by an exception: the worker leaves
\* the call for somewhere else than the line after it.
DownloadFails(j) ==
  /\ worker[j].pc \in {"l209", "l222"}
  /\ worker'[j].pc \notin {worker[j].pc, "l228"}

\* C12: the library's download is invoked at most twice per job.  The second
\* invocation happens exactly when the first ends by a DownloadError whose
\* message contains 403 or Forbidden, and has the format of the first; a first
\* failure of another kind, and every failure of the second invocation, enters
\* the except block (line 278) and no invocation follows.
C12_RetryPolicy ==
  [][\A j \in DOMAIN worker :
       LET w == worker[j]
           v == worker'[j]
       IN /\ Len(v.calls) <= 2
          /\ Len(v.calls) > Len(w.calls) =>
                \/ w.pc = "l120" /\ Len(v.calls) = 1
                \/ /\ w.pc = "l209" /\ v.pc = "l222" /\ Len(v.calls) = 2
                   /\ v.calls[1] = w.calls[1]
                   /\ v.calls[2].format = w.calls[1].format
                   /\ The(v.e).type = "DownloadError" /\ IsForbidden(The(v.e).msg)
          /\ DownloadFails(j) =>
                IF /\ w.pc = "l209" /\ The(v.e).type = "DownloadError"
                   /\ IsForbidden(The(v.e).msg)
                THEN v.pc = "l222" /\ Len(v.calls) = 2
                ELSE v.pc = "l278" /\ v.calls = w.calls
          /\ w.pc \in {"l278", "l282", "done"} =>
                v.pc \in {"l278", "l282", "done"} /\ Len(v.calls) <= Len(w.calls)]_vars

\* A job asked for with a custom format whose first download raised a 403
\* DownloadError and whose second download raised too: it is in the except
\* block after two invocations, the second with the custom format.
C12_Witness ==
  \E j \in DOMAIN worker :
    /\ worker[j].pc = "l278" /\ Len(worker[j].calls) = 2
    /\ worker[j].calls[1].format = "137+140"
    /\ worker[j].calls[2].format = "137+140"
    /\ worker[j].calls[2].user_agent # worker[j].calls[1].user_agent

\* The step in which the worker of job j returns from the except block.
EndsByExcept(j) == worker[j].pc = "l282" /\ worker'[j].pc = "done"

\* C13: a worker that caught an exception of the library call, of the lookup
\* of the temp file or of the move ends normally, leaving its job with status
\* error, a non-empty error message and no file_path.
C13_FailuresRecorded ==
  [][\A j \in DOMAIN worker :
       /\ worker[j].pc = "l278" => worker'[j].pc \in {"l278", "l282"}
       /\ worker[j].pc = "l282" => worker'[j].pc \in {"l282", "done"}
       /\ EndsByExcept(j) =>
            LET rec == active_downloads'[j]
            IN /\ rec.status = "error"
               /\ IsSome(rec.error) /\ Len(The(rec.error)) > 0
               /\ IsNone(rec.file_path)]_vars

FilePcs == {"l368", "l371", "l373", "l376", "l379"}

\* C14: whenever download_file answers, for the job id it was asked about and
\* the state it answers in: 200 (the file is sent) only if id is in the
\* registry with status completed and a file_path whose file exists; 404 if
\* id is unknown; 400 if the job's status is not completed; 404 when the
\* existence test of line 376 finds the file of a completed job gone.
C14_FileEndpoint ==
  [][\A c \in Clients :
       Answers(c, FilePcs) =>
         LET id == request[c].download_id
             code == last_response'.code
         IN /\ last_response'.client = c /\ last_response'.route = RouteFile
            /\ code = 200 =>
                 /\ id \in Jobs
                 /\ Record(id).status = "completed"
                 /\ IsSome(Record(id).file_path)
                 /\ The(Record(id).file_path).name \in DOMAIN download_dir
            /\ id \notin Jobs => code = 404
            /\ (id \in Jobs /\ Record(id).status # "completed") => code = 400
            /\ (/\ request[c].pc = "l376"
                /\ The(Record(id).file_path).name \notin DOMAIN download_dir)
                 => code = 404]_vars

\* A request for a job's file has been answered 400, the job has completed
\* since, and another client, past the tests of lines 368-377, is being sent
\* the file.
C14_Witness ==
  \E j \in Jobs : \E c \in Clients :
    /\ Finished(j) /\ Record(j).status = "completed"
    /\ last_response.route = RouteFile /\ last_response.code = 400
    /\ last_response.client # c
    /\ request[c].pc = "l379" /\ request[c].download_id = j
    /\ The(Record(j).file_path).name \in DOMAIN download_dir

\* C15 is about a callback invoked for an identifier whose record is not in
\* the registry.  No such call exists in a run of the program: the callback is
\* invoked only from the download calls of the job's own worker, which starts
\* after the insert, and no reachable statement deletes a record.  (The del of
\* line 553, were it reachable, would take only records whose completed_at is
\* set, which is the worker's last statement.)  Every running worker's job is
\* in the registry:
HookOnlyOnRegisteredJobs ==
  \A j \in DOMAIN worker : j \in Jobs

\* C16: no enumeration of the registry overlaps an insert or a delete made by
\* another thread: while a facade thread is inside the loop of list_downloads
\* (its iterator has yielded an item and is still live), no step changes the
\* set of keys of the registry.
C16_EnumerationExclusive ==
  [][\A c \in Clients :
       (request[c].pc = "l389" /\ request[c].seen > 0) =>
          DOMAIN active_downloads' = DOMAIN active_downloads]_vars

\* The move of line 250 by the worker of job j, succeeding.
MoveSucceeds(j) == move_file(j, FALSE) /\ worker'[j].pc = "l254"

\* C17: the collision loop is check-then-act.  A worker that has left the loop
\* (line 250) with its temp file in place can move it to the path it chose,
\* whatever has appeared at that path since its existence test.
C17_CheckThenAct ==
  \A j \in DOMAIN worker :
    (At(j, "l250") /\ The(worker[j].downloaded_file) \in temp_dir) =>
       ENABLED MoveSucceeds(j)

\* Two completed jobs have the same file_path; the file there is the one of
\* them that moved last, the other's has been overwritten.
C17_Witness ==
  \E j \in Jobs : \E k \in Jobs \ {j} :
    /\ Finished(j) /\ Finished(k)
    /\ Record(j).status = "completed" /\ Record(k).status = "completed"
    /\ IsSome(Record(j).file_path) /\ Record(j).file_path = Record(k).file_path
    /\ download_dir[The(Record(j).file_path).name] = k
    /\ \A n \in DOMAIN download_dir : download_dir[n] # j

\* C18: within a job, no step sets progress to a value lower than its previous
\* value.  Stated of the steps that start from a progress within [0, 100], so
\* that what refutes it does not rest on an out-of-range value (C6).
C18_ProgressNonDecreasing ==
  [][\A j \in Jobs :
       (Record(j).progress >= 0 /\ Record(j).progress <= 100) =>
          active_downloads'[j].progress >= Record(j).progress]_vars

\* C19: a worker in the except block (lines 278-287) touches no durable file
\* and no temp file of another job; its cleanup step leaves, of the temp files
\* that begin with its job's identifier, exactly those whose deletion failed
\* (none when every deletion succeeds), and changes no record, so that a
\* failing deletion alters neither status nor error.
C19_ErrorCleanup ==
  [][\A j \in DOMAIN worker :
       (worker[j].pc \in {"l278", "l282"} /\ worker'[j] # worker[j]) =>
          /\ download_dir' = download_dir
          /\ temp_dir' \subseteq temp_dir
          /\ \A n \in temp_dir : ~HasPrefix(n, j) => n \in temp_dir'
          /\ worker[j].pc = "l278" => temp_dir' = temp_dir
          /\ worker[j].pc = "l282" =>
                /\ active_downloads' = active_downloads
                /\ \A failing \in SUBSET temp_dir :
                      cleanup_partial(j, failing) =>
                         { n \in temp_dir' : HasPrefix(n, j) } = failing]_vars

\* A failed job whose worker has returned with one of its temp files left (a
\* deletion that failed and was swallowed), its status still error, beside
\* a completed job whose durable file is in place and a third file of that
\* job still in TEMP_DIR.
C19_Witness ==
  \E j \in Jobs : \E k \in Jobs \ {j} :
    /\ Finished(j) /\ Record(j).status = "error" /\ IsSome(Record(j).error)
    /\ Cardinality({ n \in temp_dir : HasPrefix(n, j) }) = 1
    /\ Finished(k) /\ Record(k).status = "completed"
    /\ download_dir[The(Record(k).file_path).name] = k
    /\ \E n \in temp_dir : HasPrefix(n, k)

\* C20: completed and error are absorbing.  From a state in which a job's
\* status is completed or error, no step changes its status, nor its error,
\* file_path or completed_at once these are set (the assignments that follow
\* the one of status in the same block, lines 73, 257-258 and 279, set them).
C20_TerminalAbsorbing ==
  [][\A j \in Jobs :
       Record(j).status \in {"completed", "error"} =>
          LET new == active_downloads'[j]
          IN /\ new.status = Record(j).status
             /\ IsSome(Record(j).error) => new.error = Record(j).error
             /\ IsSome(Record(j).file_path) => new.file_path = Record(j).file_path
             /\ IsSome(Record(j).completed_at) =>
                   new.completed_at = Record(j).completed_at]_vars

TerminalStatuses == {"completed", "error"}

\* C22: every admitted job eventually reaches a terminal status.  Under the
\* fair scheduling of the threads and with every download call coming to its
\* end, a job created with status starting eventually has status completed or
\* error and keeps it: from then on its thread has returned and its record is
\* not among those the gate counts.
C22_EventuallyTerminal ==
  \A j \in 1..MaxJobs :
    (j \in Jobs /\ Record(j).status = "starting")
      ~> [](/\ Finished(j)
            /\ Record(j).status \in TerminalStatuses
            /\ ActiveCount(active_downloads) = 0)

\* A job has ended completed after its thread went round the naming loop, the
\* facade threads are idle, and no job counts toward the gate.
C22_Witness ==
  \E j \in Jobs :
    /\ Finished(j)
    /\ Record(j).status = "completed"
    /\ The(Record(j).filename) \notin { secure_filename(t) : t \in Titles }
    /\ ActiveCount(active_downloads) = 0
    /\ request = [c \in Clients |-> IdleRequest]

\* With several jobs: whenever the gate rejects submissions it later admits
\* them again.
C22_GateReopens ==
  GateRejects(ActiveCount(active_downloads))
    ~> ~GateRejects(ActiveCount(active_downloads))

\* The files of DOWNLOAD_DIR that hold job j's download.
BackingFiles(dir, j) == { n \in DOMAIN dir : dir[n] = j }

=============================================================================
